---- MODULE Spec2Model ----
(***************************************************************************)
(* TableManager of faust/tables/manager.py as a state machine.             *)
(*                                                                         *)
(* The manager's coroutines (on_start, on_rebalance, on_recovery_completed,*)
(* on_stop) run on one cooperative event loop: a coroutine runs without    *)
(* interruption from one await to the next, and other coroutines may run   *)
(* while it is suspended at an await.  Every action below is therefore     *)
(* "resume coroutine p at await point X and run it to its next await";     *)
(* pc[p] names the await (by source line) at which p is suspended.         *)
(* A call to a collaborator is recorded, with its arguments, in calls[p]   *)
(* at the moment it is issued.                                             *)
(***************************************************************************)
EXTENDS Integers, Sequences, FiniteSets, TLC

\* ---------------------------------------------------------------- bounds
MaxRebalances == 2
MaxCompletions == 2

\* ---------------------------------------------------------------- inputs
None == "None"

\* None in a field that otherwise holds an instance (instances are numbered from 1)
NoInstance == 0

\* The table objects the application may try to register.
Tables == {"t1", "t2", "t3", "t4"}

\* table.name
TableName(t) ==
  CASE t = "t1" -> "a"
    [] t = "t2" -> "b"
    [] t = "t3" -> "a"
    [] t = "t4" -> None

\* table.changelog_topic.get_topic_name()
TopicName(t) ==
  CASE t = "t1" -> "x"
    [] t = "t2" -> "x"
    [] t = "t3" -> "y"
    [] t = "t4" -> "y"

\* TP(topic, partition)
TPs == {[topic |-> "x", partition |-> 0],
        [topic |-> "y", partition |-> 0],
        [topic |-> "live", partition |-> 0]}

\* The partition sets a rebalance may assign to this worker.
Assignments == {{},
                {[topic |-> "x", partition |-> 0]},
                {[topic |-> "x", partition |-> 0], [topic |-> "live", partition |-> 0]},
                {[topic |-> "y", partition |-> 0], [topic |-> "live", partition |-> 0]}}

Procs == {"on_start", "on_rebalance", "on_recovery_completed", "on_stop"}

\* Independent tasks that await recovery_completed.wait().
Waiters == {"w1", "w2"}

VARIABLES
  data,               \* self.data: the name -> table dict, in insertion order
  _changelogs,        \* self._changelogs: topic name -> table
  _channels,          \* self._channels: table -> channel
  _recovery_started,  \* self._recovery_started (asyncio.Event) is set
  recovery_completed, \* self.recovery_completed (asyncio.Event) is set
  _changelog_queue,   \* self._changelog_queue: None or the queue instance
  _recovery,          \* self._recovery: None or the Recovery instance
  queues_made,        \* number of FlowControlQueue instances constructed
  recoveries_made,    \* number of Recovery instances constructed
  app_topics,         \* channels passed to app.topics.add, in order
  assignment,         \* app.consumer.assignment()
  rebalancing,        \* app.rebalancing
  fetcher,            \* app._fetcher: "new", "started" or "stopped"
  table_state,        \* per table: "new", "started" or "stopped"
  coord,              \* the Recovery service: started, stopped, rebalances received
  cb,                 \* per table: state of its call_recover_callbacks() task
  pc,                 \* per coroutine: the await it is suspended at
  it,                 \* per coroutine: its iterator over self.values()
  args,               \* arguments of the running on_rebalance
  calls,              \* per coroutine: collaborator calls of its current invocation
  add_result,         \* outcome of the last add(table) call
  nRebalances,        \* on_rebalance invocations made
  nCompletions,       \* on_recovery_completed invocations made
  fanout_stale,       \* an on_rebalance was invoked since the running fan-out began
  restore_pending,    \* an on_rebalance was invoked and no full run of the callbacks began after it
  waiter              \* per waiter on recovery_completed: "idle", "waiting" or "released"

mgr == <<data, _changelogs, _recovery_started>>
wiring == <<_channels, _changelog_queue, queues_made, app_topics, table_state>>
lazy_recovery == <<_recovery, recoveries_made, coord>>
completion == <<recovery_completed, rebalancing, fetcher, cb, fanout_stale, restore_pending>>
control == <<pc, it, args, calls>>
counters == <<nRebalances, nCompletions>>
vars == <<mgr, wiring, lazy_recovery, assignment, completion, control, counters, add_result,
          waiter>>

\* ---------------------------------------------------------------- dict helpers
EmptyMap == [k \in {} |-> None]

\* d[k] = v for a mapping held as a function
Put(d, k, v) == [x \in (DOMAIN d) \cup {k} |-> IF x = k THEN v ELSE d[x]]

\* key in self  (FastUserDict.__contains__ on self.data)
Contains(d, k) == \E i \in 1..Len(d) : d[i].key = k

\* self[k] = v  (dict keeps insertion order; an existing key keeps its place)
SetItem(d, k, v) ==
  IF Contains(d, k)
    THEN [i \in 1..Len(d) |-> IF d[i].key = k THEN [key |-> k, value |-> v] ELSE d[i]]
    ELSE Append(d, [key |-> k, value |-> v])

\* self.values()
Values(d) == {d[i].value : i \in 1..Len(d)}

\* self.keys()
Keys(d) == {d[i].key : i \in 1..Len(d)}

\* self[k]
GetItem(d, k) == d[CHOOSE i \in 1..Len(d) : d[i].key = k].value

\* One collaborator call.  A call to the consumer is recorded with the
\* consumer assignment (asg) and the registered tables at the moment it is
\* issued.
Call(op, table, arg, asg) ==
  LET consumer_call == op \in {"pause_partitions", "resume_partitions"}
  IN [op |-> op, table |-> table, arg |-> arg,
      assignment |-> IF consumer_call THEN asg ELSE {},
      tables |-> IF consumer_call THEN Values(data) ELSE {}]

\* changelog_topics property
changelog_topics == DOMAIN _changelogs

\* ---------------------------------------------------------------- initial state
Init ==
  /\ data = << >>
  /\ _changelogs = EmptyMap
  /\ _channels = EmptyMap
  /\ _recovery_started = FALSE
  /\ recovery_completed = FALSE
  /\ _changelog_queue = NoInstance
  /\ _recovery = NoInstance
  /\ queues_made = 0
  /\ recoveries_made = 0
  /\ app_topics = << >>
  /\ assignment = {}
  /\ rebalancing = FALSE
  /\ fetcher = "new"
  /\ table_state = [t \in Tables |-> "new"]
  /\ coord = [started |-> FALSE, stopped |-> FALSE, rebalances |-> 0]
  /\ cb = [t \in Tables |-> "none"]
  /\ pc = [p \in Procs |-> "idle"]
  /\ it = [p \in Procs |-> [pos |-> 0, n |-> 0]]
  /\ args = [assigned |-> {}, revoked |-> {}, newly_assigned |-> {}]
  /\ calls = [p \in Procs |-> << >>]
  /\ add_result = [table |-> None, outcome |-> "none", value |-> None]
  /\ nRebalances = 0
  /\ nCompletions = 0
  /\ fanout_stale = FALSE
  /\ restore_pending = FALSE
  /\ waiter = [w \in Waiters |-> "idle"]

\* ---------------------------------------------------------------- latches
\* An Event.set() that flips the flag instead of setting it.
Event_toggle(flag) == ~ flag

\* An Event.set() that was left out.
Event_unset(flag) == flag

\* asyncio.Event.set() on a latch whose flag is `flag`: the new flag.
Event_set(flag) == TRUE

\* ---------------------------------------------------------------- add
\* add with the duplicate-name test made before the late-registration test.
add_effect_duplicate_first(table, started, d, cl) ==
  IF TableName(table) # None /\ Contains(d, TableName(table))
    THEN [outcome |-> "ValueError", value |-> None, data |-> d, changelogs |-> cl]
  ELSE IF started
    THEN [outcome |-> "RuntimeError", value |-> None, data |-> d, changelogs |-> cl]
  ELSE IF TableName(table) = None
    THEN [outcome |-> "AssertionError", value |-> None, data |-> d, changelogs |-> cl]
  ELSE [outcome |-> "return", value |-> table,
        data |-> SetItem(d, TableName(table), table),
        changelogs |-> Put(cl, TopicName(table), table)]

\* add that raises the duplicate-name error only after it has indexed the
\* table's changelog topic.
add_effect_index_first(table, started, d, cl) ==
  IF started
    THEN [outcome |-> "RuntimeError", value |-> None, data |-> d, changelogs |-> cl]
  ELSE IF TableName(table) = None
    THEN [outcome |-> "AssertionError", value |-> None, data |-> d, changelogs |-> cl]
  ELSE IF Contains(d, TableName(table))
    THEN [outcome |-> "ValueError", value |-> None, data |-> d,
          changelogs |-> Put(cl, TopicName(table), table)]
  ELSE [outcome |-> "return", value |-> table,
        data |-> SetItem(d, TableName(table), table),
        changelogs |-> Put(cl, TopicName(table), table)]

\* add that indexes the table by its own name instead of its changelog topic name.
add_effect_index_by_name(table, started, d, cl) ==
  IF started
    THEN [outcome |-> "RuntimeError", value |-> None, data |-> d, changelogs |-> cl]
  ELSE IF TableName(table) = None
    THEN [outcome |-> "AssertionError", value |-> None, data |-> d, changelogs |-> cl]
  ELSE IF Contains(d, TableName(table))
    THEN [outcome |-> "ValueError", value |-> None, data |-> d, changelogs |-> cl]
  ELSE [outcome |-> "return", value |-> table,
        data |-> SetItem(d, TableName(table), table),
        changelogs |-> Put(cl, TableName(table), table)]

\* The outcome of add(table) on a manager whose latch is `started`, whose
\* dict is d and whose changelog index is cl.
add_effect(table, started, d, cl) ==
  IF started
    THEN [outcome |-> "RuntimeError", value |-> None, data |-> d, changelogs |-> cl]
  ELSE IF TableName(table) = None
    THEN [outcome |-> "AssertionError", value |-> None, data |-> d, changelogs |-> cl]
  ELSE IF Contains(d, TableName(table))
    THEN [outcome |-> "ValueError", value |-> None, data |-> d, changelogs |-> cl]
  ELSE [outcome |-> "return", value |-> table,
        data |-> SetItem(d, TableName(table), table),
        changelogs |-> Put(cl, TopicName(table), table)]

\* The application calls add(table).  A failed add is fatal to its caller:
\* the application makes no further add call after one has raised.
add(table) ==
  /\ add_result.outcome \in {"none", "return"}
  /\ LET r == add_effect(table, _recovery_started, data, _changelogs)
     IN /\ data' = r.data
        /\ _changelogs' = r.changelogs
        /\ add_result' = [table |-> table, outcome |-> r.outcome, value |-> r.value]
  /\ UNCHANGED <<_recovery_started, wiring, lazy_recovery, assignment, completion,
                 control, nRebalances, nCompletions, waiter>>

\* ---------------------------------------------------------------- lazy singletons
\* changelog_queue property: the queue, constructed on first access
changelog_queue(queue, made) ==
  IF queue = NoInstance
    THEN [queue |-> made + 1, made |-> made + 1]
    ELSE [queue |-> queue, made |-> made]

\* A recovery property without the cache test: every access constructs.
recovery_fresh(rec, made) == [recovery |-> made + 1, made |-> made + 1]

\* recovery property: the coordinator, constructed on first access
recovery(rec, made) ==
  IF rec = NoInstance
    THEN [recovery |-> made + 1, made |-> made + 1]
    ELSE [recovery |-> rec, made |-> made]

\* ---------------------------------------------------------------- channel wiring
\* The loop body with its test inverted: a table without a channel gets none.
wire_unbound(table, channels, queue, made, topics) ==
  [channels |-> channels, queue |-> queue, made |-> made, topics |-> topics]

\* The loop body without its test: every run derives and registers a channel.
wire_always(table, channels, queue, made, topics) ==
  LET q == changelog_queue(queue, made)
      chan == [topic |-> TopicName(table), queue |-> q.queue, id |-> Len(topics) + 1]
  IN [channels |-> Put(channels, table, chan), queue |-> q.queue,
      made |-> q.made, topics |-> Append(topics, chan)]

\* Body of the loop of _update_channels before its await: give the table a
\* channel if it has none.
wire(table, channels, queue, made, topics) ==
  IF table \in DOMAIN channels
    THEN [channels |-> channels, queue |-> queue, made |-> made, topics |-> topics]
    ELSE LET q == changelog_queue(queue, made)
             chan == [topic |-> TopicName(table), queue |-> q.queue,
                      id |-> Len(topics) + 1]
         IN [channels |-> Put(channels, table, chan), queue |-> q.queue,
             made |-> q.made, topics |-> Append(topics, chan)]

\* The filter of pause_partitions looking the topic up in _channels, whose
\* keys are tables: nothing is paused.
changelog_partitions_by_channel(asg, cl) == {}

\* pause_partitions given the whole assignment.
changelog_partitions_all(asg, cl) == asg

\* The argument of pause_partitions in _update_channels.
changelog_partitions(asg, cl) == {tp \in asg : tp.topic \in DOMAIN cl}

\* Service.maybe_start() of a table
maybe_start(state) == IF state = "new" THEN "started" ELSE state

\* The forwarded triple with revoked and newly_assigned exchanged.
forwarded_swapped(a) == <<a.assigned, a.newly_assigned, a.revoked>>

\* The argument list on_rebalance passes to recovery.on_rebalance.
forwarded(a) == <<a.assigned, a.revoked, a.newly_assigned>>

\* The statement following `await self._update_channels()` in coroutine p,
\* up to its await: recovery.start() in on_start, recovery.on_rebalance(...)
\* in on_rebalance.
after_update_channels(p, log, asg, a) ==
  LET r == recovery(_recovery, recoveries_made)
  IN /\ _recovery' = r.recovery
     /\ recoveries_made' = r.made
     /\ IF p = "on_start"
          THEN /\ coord' = [coord EXCEPT !.started = TRUE]
               /\ calls' = [calls EXCEPT ![p] = Append(log, Call("recovery.start", None, {}, asg))]
               /\ pc' = [pc EXCEPT ![p] = "A78"]
          ELSE /\ coord' = [coord EXCEPT !.rebalances = @ + 1]
               /\ calls' = [calls EXCEPT ![p] =
                              Append(log, Call("recovery.on_rebalance", None, forwarded(a), asg))]
               /\ pc' = [pc EXCEPT ![p] = "A110"]

\* _update_channels of coroutine p from the point where its iterator over
\* self.values(), created when the dict had n entries, is asked for entry i,
\* up to the next await of p.  log is what p has called so far, asg the
\* consumer assignment, a the arguments of p when p is on_rebalance.
_update_channels(p, i, n, log, asg, a) ==
  IF Len(data) # n
    THEN \* RuntimeError: dictionary changed size during iteration
         /\ pc' = [pc EXCEPT ![p] = "RuntimeError"]
         /\ calls' = [calls EXCEPT ![p] = log]
         /\ it' = [it EXCEPT ![p] = [pos |-> i, n |-> n]]
         /\ UNCHANGED <<wiring, lazy_recovery>>
  ELSE IF i <= n
    THEN LET table == data[i].value
             w == wire(table, _channels, _changelog_queue, queues_made, app_topics)
         IN /\ _channels' = w.channels
            /\ _changelog_queue' = w.queue
            /\ queues_made' = w.made
            /\ app_topics' = w.topics
            /\ table_state' = [table_state EXCEPT ![table] = maybe_start(@)]
            /\ calls' = [calls EXCEPT ![p] = Append(log, Call("maybe_start", table, {}, asg))]
            /\ pc' = [pc EXCEPT ![p] = "A87"]
            /\ it' = [it EXCEPT ![p] = [pos |-> i, n |-> n]]
            /\ UNCHANGED lazy_recovery
  ELSE LET paused == changelog_partitions(asg, _changelogs)
       IN /\ it' = [it EXCEPT ![p] = [pos |-> i, n |-> n]]
          /\ after_update_channels(p, Append(log, Call("pause_partitions", None, paused, asg)),
                                   asg, a)
          /\ UNCHANGED wiring

\* ---------------------------------------------------------------- on_start
\* on_start() is called: it runs to `await self.sleep(1.0)`.
on_start ==
  /\ pc["on_start"] = "idle"
  /\ pc' = [pc EXCEPT !["on_start"] = "A76"]
  /\ calls' = [calls EXCEPT !["on_start"] = <<Call("sleep", None, {}, assignment)>>]
  /\ UNCHANGED <<mgr, wiring, lazy_recovery, assignment, completion, it, args,
                 counters, add_result, waiter>>

\* The sleep is over: on_start enters _update_channels.
on_start_A76 ==
  /\ pc["on_start"] = "A76"
  /\ _update_channels("on_start", 1, Len(data), calls["on_start"], assignment, args)
  /\ UNCHANGED <<mgr, assignment, completion, args, counters, add_result, waiter>>

\* recovery.start() has returned: on_start returns.
on_start_A78 ==
  /\ pc["on_start"] = "A78"
  /\ pc' = [pc EXCEPT !["on_start"] = "done"]
  /\ UNCHANGED <<mgr, wiring, lazy_recovery, assignment, completion, it, args, calls,
                 counters, add_result, waiter>>

\* table.maybe_start() has returned in the _update_channels of coroutine p.
_update_channels_A87(p) ==
  /\ pc[p] = "A87"
  /\ _update_channels(p, it[p].pos + 1, it[p].n, calls[p], assignment, args)
  /\ UNCHANGED <<mgr, assignment, completion, args, counters, add_result, waiter>>

\* ---------------------------------------------------------------- on_rebalance
\* The loop body of on_rebalance with assign notified before revoke.
notification_assign_first(phase, table, a, asg) ==
  IF phase = 1
    THEN Call("on_partitions_assigned", table, a.newly_assigned, asg)
    ELSE Call("on_partitions_revoked", table, a.revoked, asg)

\* The notification on_rebalance awaits in phase 1 and in phase 2 of its loop body.
notification(phase, table, a, asg) ==
  IF phase = 1
    THEN Call("on_partitions_revoked", table, a.revoked, asg)
    ELSE Call("on_partitions_assigned", table, a.newly_assigned, asg)

\* on_rebalance(assigned, revoked, newly_assigned) is called by the app, which
\* has set app.rebalancing and whose consumer now reports `assigned`; it runs
\* to its first await.
on_rebalance(assigned) ==
  LET a == [assigned |-> assigned, revoked |-> assignment \ assigned,
            newly_assigned |-> assigned \ assignment]
  IN /\ pc["on_rebalance"] \in {"idle", "done"}
     /\ nRebalances < MaxRebalances
     /\ nRebalances' = nRebalances + 1
     /\ assignment' = assigned
     /\ rebalancing' = TRUE
     /\ restore_pending' = TRUE
     /\ fanout_stale' = TRUE
     /\ args' = a
     /\ _recovery_started' = Event_set(_recovery_started)
     /\ IF Len(data) > 0
          THEN /\ calls' = [calls EXCEPT !["on_rebalance"] =
                              <<notification(1, data[1].value, a, assigned)>>]
               /\ pc' = [pc EXCEPT !["on_rebalance"] = "A106"]
               /\ it' = [it EXCEPT !["on_rebalance"] = [pos |-> 1, n |-> Len(data)]]
               /\ UNCHANGED <<wiring, lazy_recovery>>
          ELSE _update_channels("on_rebalance", 1, Len(data), << >>, assigned, a)
     /\ UNCHANGED <<data, _changelogs, recovery_completed, fetcher, cb, nCompletions,
                    add_result, waiter>>

\* table.on_partitions_revoked(revoked) has returned.
on_rebalance_A106 ==
  /\ pc["on_rebalance"] = "A106"
  /\ calls' = [calls EXCEPT !["on_rebalance"] =
                 Append(@, notification(2, data[it["on_rebalance"].pos].value, args, assignment))]
  /\ pc' = [pc EXCEPT !["on_rebalance"] = "A107"]
  /\ UNCHANGED <<mgr, wiring, lazy_recovery, assignment, completion, it, args,
                 counters, add_result, waiter>>

\* table.on_partitions_assigned(newly_assigned) has returned: next table, or
\* on to _update_channels.
on_rebalance_A107 ==
  LET i == it["on_rebalance"].pos + 1
      n == it["on_rebalance"].n
  IN /\ pc["on_rebalance"] = "A107"
     /\ IF Len(data) # n
          THEN /\ pc' = [pc EXCEPT !["on_rebalance"] = "RuntimeError"]
               /\ UNCHANGED <<wiring, lazy_recovery, it, calls>>
        ELSE IF i <= n
          THEN /\ calls' = [calls EXCEPT !["on_rebalance"] =
                              Append(@, notification(1, data[i].value, args, assignment))]
               /\ pc' = [pc EXCEPT !["on_rebalance"] = "A106"]
               /\ it' = [it EXCEPT !["on_rebalance"] = [pos |-> i, n |-> n]]
               /\ UNCHANGED <<wiring, lazy_recovery>>
        ELSE _update_channels("on_rebalance", 1, Len(data), calls["on_rebalance"],
                              assignment, args)
     /\ UNCHANGED <<mgr, assignment, completion, args, counters, add_result, waiter>>

\* recovery.on_rebalance(...) has returned: on_rebalance returns.
on_rebalance_A110 ==
  /\ pc["on_rebalance"] = "A110"
  /\ pc' = [pc EXCEPT !["on_rebalance"] = "done"]
  /\ UNCHANGED <<mgr, wiring, lazy_recovery, assignment, completion, it, args, calls,
                 counters, add_result, waiter>>

\* ---------------------------------------------------------------- on_recovery_completed
\* _is_changelog_tp(tp), given the changelog index
_is_changelog_tp(tp, cl) == tp.topic \in DOMAIN cl

\* resume_partitions given the whole assignment.
resumed_partitions_all(asg, cl) == asg

\* The argument of resume_partitions in on_recovery_completed.
resumed_partitions(asg, cl) == {tp \in asg : ~ _is_changelog_tp(tp, cl)}

\* asyncio.wait returning as soon as one callback task has finished.
wait_returns_first_completed(tasks) == \E t \in Tables : tasks[t] = "done"

\* asyncio.wait(callback_coros) returns: no callback task is still running.
wait_returns(tasks) == \A t \in Tables : tasks[t] # "running"

\* on_recovery_completed from the statement after the callback barrier
\* (`await self.app.consumer.perform_seek()`) up to that await.
perform_seek(log) ==
  /\ calls' = [calls EXCEPT !["on_recovery_completed"] =
                 Append(log, Call("perform_seek", None, {}, assignment))]
  /\ pc' = [pc EXCEPT !["on_recovery_completed"] = "A121"]

\* The Recovery service calls on_recovery_completed(); it runs to its first
\* await.  The coordinator does so only after it was told of a rebalance and
\* before it is stopped.
on_recovery_completed ==
  LET tables == [i \in 1..Len(data) |-> data[i].value]
      coros == [i \in 1..Len(data) |->
                  Call("call_recover_callbacks", tables[i], {}, assignment)]
  IN /\ pc["on_recovery_completed"] \in {"idle", "done"}
     /\ nCompletions < MaxCompletions
     /\ coord.rebalances > 0
     /\ ~ coord.stopped
     /\ nCompletions' = nCompletions + 1
     /\ IF Len(coros) > 0
          THEN /\ cb' = [t \in Tables |-> IF t \in Values(data) THEN "running" ELSE "none"]
               /\ fanout_stale' = FALSE
               /\ calls' = [calls EXCEPT !["on_recovery_completed"] = coros]
               /\ pc' = [pc EXCEPT !["on_recovery_completed"] = "A119"]
               /\ UNCHANGED restore_pending
          ELSE /\ cb' = [t \in Tables |-> "none"]
               /\ fanout_stale' = FALSE
               /\ restore_pending' = FALSE
               /\ perform_seek(<< >>)
     /\ UNCHANGED <<mgr, wiring, lazy_recovery, assignment, recovery_completed, rebalancing,
                    fetcher, it, args, nRebalances, add_result, waiter>>

\* The call_recover_callbacks() task of one table finishes.
call_recover_callbacks(t) ==
  /\ cb[t] = "running"
  /\ cb' = [cb EXCEPT ![t] = "done"]
  /\ UNCHANGED <<mgr, wiring, lazy_recovery, assignment, recovery_completed, rebalancing,
                 fetcher, fanout_stale, restore_pending, control, counters, add_result, waiter>>

\* asyncio.wait(callback_coros) has returned.
on_recovery_completed_A119 ==
  /\ pc["on_recovery_completed"] = "A119"
  /\ wait_returns(cb)
  /\ restore_pending' = IF \A t \in Values(data) : cb[t] = "done"
                          THEN fanout_stale ELSE restore_pending
  /\ perform_seek(calls["on_recovery_completed"])
  /\ UNCHANGED <<mgr, wiring, lazy_recovery, assignment, recovery_completed, rebalancing,
                 fetcher, cb, fanout_stale, it, args, counters, add_result, waiter>>

\* The steps of on_recovery_completed between the return of perform_seek and
\* the await of the fetcher start, with resume_partitions before the latch.
completion_steps_resume_first(resumed, asg) ==
  <<Call("resume_partitions", None, resumed, asg),
    Call("recovery_completed.set", None, {}, asg),
    Call("fetcher.maybe_start", None, {}, asg)>>

\* The steps of on_recovery_completed between the return of perform_seek and
\* the await of the fetcher start, in order.
completion_steps(resumed, asg) ==
  <<Call("recovery_completed.set", None, {}, asg),
    Call("resume_partitions", None, resumed, asg),
    Call("fetcher.maybe_start", None, {}, asg)>>

\* perform_seek() has returned: set the latch, resume, start the fetcher.
on_recovery_completed_A121 ==
  LET resumed == resumed_partitions(assignment, _changelogs)
  IN /\ pc["on_recovery_completed"] = "A121"
     /\ recovery_completed' = Event_set(recovery_completed)
     /\ fetcher' = maybe_start(fetcher)
     /\ calls' = [calls EXCEPT !["on_recovery_completed"] =
                    @ \o completion_steps(resumed, assignment)]
     /\ pc' = [pc EXCEPT !["on_recovery_completed"] = "A129"]
     /\ UNCHANGED <<mgr, wiring, lazy_recovery, assignment, rebalancing, cb, fanout_stale,
                    restore_pending, it, args, counters, add_result, waiter>>

\* fetcher.maybe_start() has returned: clear app.rebalancing and return.
on_recovery_completed_A129 ==
  /\ pc["on_recovery_completed"] = "A129"
  /\ rebalancing' = FALSE
  /\ calls' = [calls EXCEPT !["on_recovery_completed"] =
                 Append(@, Call("rebalancing=False", None, {}, assignment))]
  /\ pc' = [pc EXCEPT !["on_recovery_completed"] = "done"]
  /\ cb' = [t \in Tables |-> "none"]
  /\ UNCHANGED <<mgr, wiring, lazy_recovery, assignment, recovery_completed, fetcher,
                 fanout_stale, restore_pending, it, args, counters, add_result, waiter>>

\* ---------------------------------------------------------------- on_stop
\* The loop over self.values() of on_stop, asked for entry i by an iterator
\* created when the dict had n entries, up to the next await.
stop_tables(i, n) ==
  IF Len(data) # n
    THEN /\ pc' = [pc EXCEPT !["on_stop"] = "RuntimeError"]
         /\ UNCHANGED <<table_state, calls, it>>
  ELSE IF i <= n
    THEN /\ table_state' = [table_state EXCEPT ![data[i].value] = "stopped"]
         /\ calls' = [calls EXCEPT !["on_stop"] =
                        Append(@, Call("table.stop", data[i].value, {}, assignment))]
         /\ it' = [it EXCEPT !["on_stop"] = [pos |-> i, n |-> n]]
         /\ pc' = [pc EXCEPT !["on_stop"] = "A98"]
  ELSE /\ pc' = [pc EXCEPT !["on_stop"] = "done"]
       /\ UNCHANGED <<table_state, calls, it>>

\* `if self.recovery:`, the test made on the lazily constructing property.
has_recovery_property(rec) == TRUE

\* `if self._recovery:` in on_stop
has_recovery(rec) == rec # NoInstance

\* on_stop() is called: it runs to `await self.app._fetcher.stop()`.
on_stop ==
  /\ pc["on_stop"] = "idle"
  /\ fetcher' = "stopped"
  /\ calls' = [calls EXCEPT !["on_stop"] = <<Call("fetcher.stop", None, {}, assignment)>>]
  /\ pc' = [pc EXCEPT !["on_stop"] = "A94"]
  /\ UNCHANGED <<mgr, wiring, lazy_recovery, assignment, recovery_completed, rebalancing,
                 cb, fanout_stale, restore_pending, it, args, counters, add_result, waiter>>

\* fetcher.stop() has returned: stop the coordinator if there is one, else
\* go on to the tables.
on_stop_A94 ==
  /\ pc["on_stop"] = "A94"
  /\ IF has_recovery(_recovery)
       THEN /\ coord' = [coord EXCEPT !.stopped = TRUE]
            /\ calls' = [calls EXCEPT !["on_stop"] =
                           Append(@, Call("recovery.stop", None, {}, assignment))]
            /\ pc' = [pc EXCEPT !["on_stop"] = "A96"]
            /\ UNCHANGED <<table_state, it>>
       ELSE /\ stop_tables(1, Len(data))
            /\ UNCHANGED coord
  /\ UNCHANGED <<mgr, _channels, _changelog_queue, queues_made, app_topics, _recovery,
                 recoveries_made, assignment, completion, args, counters, add_result, waiter>>

\* recovery.stop() has returned: on to the tables.
on_stop_A96 ==
  /\ pc["on_stop"] = "A96"
  /\ stop_tables(1, Len(data))
  /\ UNCHANGED <<mgr, _channels, _changelog_queue, queues_made, app_topics, lazy_recovery,
                 assignment, completion, args, counters, add_result, waiter>>

\* table.stop() has returned: next table, or return.
on_stop_A98 ==
  /\ pc["on_stop"] = "A98"
  /\ stop_tables(it["on_stop"].pos + 1, it["on_stop"].n)
  /\ UNCHANGED <<mgr, _channels, _changelog_queue, queues_made, app_topics, lazy_recovery,
                 assignment, completion, args, counters, add_result, waiter>>

\* ---------------------------------------------------------------- specifications
\* Registration, startup and rebalance: add, on_start and on_rebalance interleave.
Next ==
  \/ \E t \in Tables : add(t)
  \/ on_start
  \/ on_start_A76
  \/ on_start_A78
  \/ \E p \in {"on_start", "on_rebalance"} : _update_channels_A87(p)
  \/ \E assigned \in Assignments : on_rebalance(assigned)
  \/ on_rebalance_A106
  \/ on_rebalance_A107
  \/ on_rebalance_A110

Spec == Init /\ [][Next]_vars

\* Registration, rebalance and recovery completion: add, on_rebalance and
\* on_recovery_completed (with its callback tasks) interleave.
NextRecovery ==
  \/ \E t \in Tables : add(t)
  \/ _update_channels_A87("on_rebalance")
  \/ \E assigned \in Assignments : on_rebalance(assigned)
  \/ on_rebalance_A106
  \/ on_rebalance_A107
  \/ on_rebalance_A110
  \/ on_recovery_completed
  \/ \E t \in Tables : call_recover_callbacks(t)
  \/ on_recovery_completed_A119
  \/ on_recovery_completed_A121
  \/ on_recovery_completed_A129

SpecRecovery == Init /\ [][NextRecovery]_vars

\* Startup, rebalance and shutdown: on_start, on_rebalance and on_stop interleave.
NextShutdown ==
  \/ \E t \in Tables : add(t)
  \/ on_start
  \/ on_start_A76
  \/ on_start_A78
  \/ \E p \in {"on_start", "on_rebalance"} : _update_channels_A87(p)
  \/ \E assigned \in Assignments : on_rebalance(assigned)
  \/ on_rebalance_A106
  \/ on_rebalance_A107
  \/ on_rebalance_A110
  \/ on_stop
  \/ on_stop_A94
  \/ on_stop_A96
  \/ on_stop_A98

SpecShutdown == Init /\ [][NextShutdown]_vars

\* ---------------------------------------------------------------- lifecycle
\* The application registers a table before the first rebalance and while
\* neither on_start nor on_stop is inside a loop over the tables; the call
\* succeeds.  (The failing calls and the calls made during a loop are in Spec.)
register(t) ==
  /\ nRebalances = 0
  /\ pc["on_start"] \in {"idle", "done"}
  /\ pc["on_stop"] = "idle"
  /\ add_effect(t, _recovery_started, data, _changelogs).outcome = "return"
  /\ add(t)

\* The assignments handed to on_rebalance in the lifecycle specification.
LifecycleAssignments ==
  {{[topic |-> "x", partition |-> 0]},
   {[topic |-> "y", partition |-> 0], [topic |-> "live", partition |-> 0]}}

\* The whole lifecycle: on_start, on_rebalance, on_recovery_completed and
\* on_stop interleave at their awaits.
NextLifecycle ==
  \/ \E t \in Tables : register(t)
  \/ on_start
  \/ on_start_A76
  \/ on_start_A78
  \/ \E p \in {"on_start", "on_rebalance"} : _update_channels_A87(p)
  \/ \E assigned \in LifecycleAssignments : on_rebalance(assigned)
  \/ on_rebalance_A106
  \/ on_rebalance_A107
  \/ on_rebalance_A110
  \/ on_recovery_completed
  \/ \E t \in Tables : call_recover_callbacks(t)
  \/ on_recovery_completed_A119
  \/ on_recovery_completed_A121
  \/ on_recovery_completed_A129
  \/ on_stop
  \/ on_stop_A94
  \/ on_stop_A96
  \/ on_stop_A98

SpecLifecycle == Init /\ [][NextLifecycle]_vars

\* ---------------------------------------------------------------- ordered start
\* on_rebalance is called only once on_start has been called: the worker
\* starts the table manager before the consumer delivers a rebalance.
on_rebalance_after_on_start(assigned) ==
  /\ pc["on_start"] # "idle"
  /\ on_rebalance(assigned)

NextStarted ==
  \/ \E t \in Tables : add(t)
  \/ on_start
  \/ on_start_A76
  \/ on_start_A78
  \/ \E p \in {"on_start", "on_rebalance"} : _update_channels_A87(p)
  \/ \E assigned \in Assignments : on_rebalance_after_on_start(assigned)
  \/ on_rebalance_A106
  \/ on_rebalance_A107
  \/ on_rebalance_A110

SpecStarted == Init /\ [][NextStarted]_vars

\* ---------------------------------------------------------------- failures
\* The call_recover_callbacks() task of one table ends with an exception.
call_recover_callbacks_raises(t) ==
  /\ cb[t] = "running"
  /\ cb' = [cb EXCEPT ![t] = "failed"]
  /\ UNCHANGED <<mgr, wiring, lazy_recovery, assignment, recovery_completed, rebalancing,
                 fetcher, fanout_stale, restore_pending, control, counters, add_result, waiter>>

\* Rebalance and completion where a recovered-callback may fail.
NextFailure ==
  \/ \E t \in Tables : add(t)
  \/ \E assigned \in Assignments : on_rebalance(assigned)
  \/ on_rebalance_A106
  \/ on_rebalance_A107
  \/ _update_channels_A87("on_rebalance")
  \/ on_rebalance_A110
  \/ on_recovery_completed
  \/ \E t \in Tables : call_recover_callbacks(t)
  \/ \E t \in Tables : call_recover_callbacks_raises(t)
  \/ on_recovery_completed_A119
  \/ on_recovery_completed_A121
  \/ on_recovery_completed_A129

SpecFailure == Init /\ [][NextFailure]_vars

\* ---------------------------------------------------------------- waiters
\* A task calls `await recovery_completed.wait()`: Event.wait returns at once
\* when the flag is set and suspends the task otherwise.
wait(w) ==
  /\ waiter[w] = "idle"
  /\ waiter' = [waiter EXCEPT ![w] = IF recovery_completed THEN "released" ELSE "waiting"]
  /\ UNCHANGED <<mgr, wiring, lazy_recovery, assignment, completion, control, counters,
                 add_result>>

\* The event loop resumes a task suspended in Event.wait once set() was called.
wakeup(w) ==
  /\ waiter[w] = "waiting"
  /\ recovery_completed
  /\ waiter' = [waiter EXCEPT ![w] = "released"]
  /\ UNCHANGED <<mgr, wiring, lazy_recovery, assignment, completion, control, counters,
                 add_result>>

\* The assignments handed to on_rebalance in the specification with waiters.
WakeupAssignments ==
  {{[topic |-> "x", partition |-> 0], [topic |-> "live", partition |-> 0]}}

NextWakeup ==
  \/ \E t \in Tables : register(t)
  \/ \E assigned \in WakeupAssignments : on_rebalance(assigned)
  \/ on_rebalance_A106
  \/ on_rebalance_A107
  \/ _update_channels_A87("on_rebalance")
  \/ on_rebalance_A110
  \/ on_recovery_completed
  \/ \E t \in Tables : call_recover_callbacks(t)
  \/ on_recovery_completed_A119
  \/ on_recovery_completed_A121
  \/ on_recovery_completed_A129
  \/ \E w \in Waiters : wait(w)
  \/ \E w \in Waiters : wakeup(w)

\* The event loop runs every coroutine that is ready, and the collaborators'
\* calls (the callbacks, perform_seek, the fetcher start) terminate.
Fairness ==
  /\ \A t \in Tables : WF_vars(call_recover_callbacks(t))
  /\ WF_vars(on_recovery_completed_A119)
  /\ WF_vars(on_recovery_completed_A121)
  /\ WF_vars(on_recovery_completed_A129)
  /\ \A w \in Waiters : WF_vars(wakeup(w))

SpecWakeup == Init /\ [][NextWakeup]_vars /\ Fairness

TypeOK ==
  /\ Values(data) \subseteq Tables
  /\ DOMAIN _channels \subseteq Tables
  /\ _recovery_started \in BOOLEAN
  /\ recovery_completed \in BOOLEAN
  /\ assignment \in Assignments \cup {{}}
  /\ fetcher \in {"new", "started", "stopped"}
  /\ nRebalances \in 0..MaxRebalances
  /\ nCompletions \in 0..MaxCompletions
  /\ waiter \in [Waiters -> {"idle", "waiting", "released"}]

\* ---------------------------------------------------------------- properties
\* A step is an add call exactly when it changes add_result.
AddStep == add_result' # add_result

\* The topic names of the registered tables.
RegisteredTopics(tables) == {TopicName(t) : t \in tables}

\* C2: an add call issued once on_rebalance has been invoked (also while the
\* first on_rebalance is suspended at an await, also for a registered name)
\* raises the late-registration error and leaves tables, the changelog-topic
\* index and the channels unchanged.
C2_LateAddRejected ==
  [][(AddStep /\ nRebalances > 0)
       => /\ add_result'.outcome = "RuntimeError"
          /\ UNCHANGED <<data, _changelogs, _channels>>]_vars

\* A late add of a table whose name is registered, made while the first
\* on_rebalance is suspended at an await, has raised RuntimeError.
C2_Witness ==
  /\ add_result.outcome = "RuntimeError"
  /\ Contains(data, TableName(add_result.table))
  /\ nRebalances = 1
  /\ pc["on_rebalance"] \in {"A106", "A107", "A87", "A110"}

\* C3: before the first rebalance, an add under a registered name raises the
\* duplicate-table error, and tables, index, channels and both latches are
\* as before; the name still maps to the table registered first.
C3_DuplicateAddRejected ==
  [][(AddStep /\ nRebalances = 0 /\ Contains(data, TableName(add_result'.table)))
       => /\ add_result'.outcome = "ValueError"
          /\ UNCHANGED <<data, _changelogs, _channels, _recovery_started, recovery_completed>>
          /\ GetItem(data', TableName(add_result'.table))
               = GetItem(data, TableName(add_result'.table))]_vars

\* t3 was added under the name of the registered t1 and was refused.
C3_Witness ==
  /\ add_result.outcome = "ValueError"
  /\ add_result.table = "t3"
  /\ nRebalances = 0
  /\ GetItem(data, "a") = "t1"

\* C4: before the first rebalance an add of a table with an unused name
\* returns that table and registers it, and changelog_topics is exactly the
\* set of changelog topic names of the registered tables.
C4_AddRegisters ==
  /\ [](changelog_topics = RegisteredTopics(Values(data)))
  /\ [][(/\ AddStep
         /\ nRebalances = 0
         /\ TableName(add_result'.table) # None
         /\ ~ Contains(data, TableName(add_result'.table)))
          => /\ add_result'.outcome = "return"
             /\ add_result'.value = add_result'.table
             /\ data' = Append(data, [key |-> TableName(add_result'.table),
                                      value |-> add_result'.table])]_vars

\* Two tables with distinct names and distinct topics are registered.
C4_Witness ==
  /\ add_result.outcome = "return"
  /\ Values(data) = {"t2", "t3"}
  /\ changelog_topics = {"x", "y"}

\* C5: the changelog-topic index has exactly one entry per registered table
\* and maps every registered table's changelog topic name to that table.
C5_IndexOneToOne ==
  /\ Cardinality(DOMAIN _changelogs) = Len(data)
  /\ \A t \in Values(data) :
       /\ TopicName(t) \in DOMAIN _changelogs
       /\ _changelogs[TopicName(t)] = t

\* The positions in the call log L of the calls of operation op.
Ops(L, op) == {i \in 1..Len(L) : L[i].op = op}

\* The partition notifications in the call log L, in order.
Notifications(L) ==
  SelectSeq(L, LAMBDA c : c.op \in {"on_partitions_revoked", "on_partitions_assigned"})

\* Coroutine p has run its _update_channels to the end.
WiringFinished(p) ==
  IF p = "on_start" THEN pc[p] \in {"A78", "done"} ELSE pc[p] \in {"A110", "done"}

\* C6: a run of channel wiring that reaches its end (in on_start and in every
\* on_rebalance) has issued, after the last table start, exactly one
\* pause_partitions call, and its argument is exactly the partitions of the
\* consumer's assignment whose topic is the changelog topic of a registered
\* table; an unfinished run has paused nothing.
C6_PauseExactlyChangelogs ==
  \A p \in {"on_start", "on_rebalance"} :
    LET L == calls[p]
    IN /\ Cardinality(Ops(L, "pause_partitions")) = IF WiringFinished(p) THEN 1 ELSE 0
       /\ \A i \in Ops(L, "pause_partitions") :
            /\ L[i].arg = {tp \in L[i].assignment : tp.topic \in RegisteredTopics(L[i].tables)}
            /\ \A j \in Ops(L, "maybe_start") : j < i
            /\ {L[j].table : j \in Ops(L, "maybe_start")} = L[i].tables

\* on_start's wiring, run after a rebalance assigned a changelog partition
\* and a live partition, paused the changelog partition only.
C6_Witness ==
  \E i \in Ops(calls["on_start"], "pause_partitions") :
    /\ calls["on_start"][i].arg = {[topic |-> "x", partition |-> 0]}
    /\ calls["on_start"][i].assignment =
         {[topic |-> "x", partition |-> 0], [topic |-> "live", partition |-> 0]}

\* C7: in one on_rebalance invocation the notifications come in pairs, one
\* pair per registered table: on_partitions_revoked(revoked) immediately
\* followed by on_partitions_assigned(newly_assigned) of the same table, and
\* once the loop is over every registered table has had its pair.
C7_RevokeBeforeAssign ==
  LET N == Notifications(calls["on_rebalance"])
  IN /\ Len(N) <= 2 * Len(data)
     /\ \A i \in 1..Len(N) :
          IF i % 2 = 1
            THEN /\ N[i].op = "on_partitions_revoked"
                 /\ N[i].arg = args.revoked
                 /\ N[i].table = data[(i + 1) \div 2].value
            ELSE /\ N[i].op = "on_partitions_assigned"
                 /\ N[i].arg = args.newly_assigned
                 /\ N[i].table = N[i - 1].table
     /\ pc["on_rebalance"] = "A106" => Len(N) % 2 = 1
     /\ pc["on_rebalance"] \in {"A87", "A110", "done"} => Len(N) = 2 * Len(data)

\* An on_rebalance with non-empty revoked and newly assigned sets has
\* notified two tables.
C7_Witness ==
  /\ pc["on_rebalance"] = "A110"
  /\ Len(data) = 2
  /\ args.revoked # {}
  /\ args.newly_assigned # {}
  /\ Len(Notifications(calls["on_rebalance"])) = 4

\* C8: an on_rebalance invocation calls recovery.on_rebalance exactly once,
\* as its last call, with the triple it was invoked with, directly after the
\* pause_partitions call of its wiring and after every table was notified
\* and started; before that point it has forwarded nothing.
C8_ForwardAfterPause ==
  LET L == calls["on_rebalance"]
  IN IF pc["on_rebalance"] \in {"A110", "done"}
       THEN /\ Ops(L, "recovery.on_rebalance") = {Len(L)}
            /\ L[Len(L)].arg = <<args.assigned, args.revoked, args.newly_assigned>>
            /\ args.assigned = assignment
            /\ L[Len(L) - 1].op = "pause_partitions"
            /\ Len(Notifications(L)) = 2 * Len(data)
            /\ Cardinality(Ops(L, "maybe_start")) = Len(data)
            /\ coord.rebalances = nRebalances
       ELSE /\ Ops(L, "recovery.on_rebalance") = {}
            /\ coord.rebalances = IF nRebalances = 0 THEN 0 ELSE nRebalances - 1

\* The second on_rebalance, whose revoked and newly assigned sets differ, has
\* forwarded its triple.
C8_Witness ==
  /\ pc["on_rebalance"] = "A110"
  /\ nRebalances = 2
  /\ Len(data) > 0
  /\ args.revoked # args.newly_assigned
  /\ args.revoked # {}

\* C9: on_recovery_completed calls perform_seek only when the recovered
\* callback of every registered table has been started and has finished; the
\* latch, resume_partitions and the fetcher start come after perform_seek.
C9_CallbackBarrier ==
  LET L == calls["on_recovery_completed"]
      Seek == Ops(L, "perform_seek")
      Later == Ops(L, "recovery_completed.set") \cup Ops(L, "resume_partitions")
                 \cup Ops(L, "fetcher.maybe_start")
  IN /\ pc["on_recovery_completed"] \in {"A121", "A129"}
          => \A t \in Values(data) : cb[t] = "done"
     /\ pc["on_recovery_completed"] \in {"A121", "A129", "done"}
          => /\ Cardinality(Seek) = 1
             /\ {L[i].table : i \in Ops(L, "call_recover_callbacks")} = Values(data)
             /\ \A i \in Ops(L, "call_recover_callbacks") : \A j \in Seek : i < j
     /\ pc["on_recovery_completed"] \in {"A129", "done"}
          => Cardinality(Later) = 3
     /\ pc["on_recovery_completed"] \in {"idle", "A119"} => Seek = {}
     /\ pc["on_recovery_completed"] \in {"idle", "A119", "A121"} => Later = {}
     /\ \A i \in Later : \A j \in Seek : j < i
     /\ (nCompletions <= 1 /\ pc["on_recovery_completed"] \in {"idle", "A119", "A121"})
          => ~ recovery_completed /\ fetcher # "started"

\* The completion has passed the barrier of two tables and performed the seek.
C9_Witness ==
  /\ pc["on_recovery_completed"] = "A121"
  /\ Cardinality(Values(data)) = 2
  /\ \A t \in Values(data) : cb[t] = "done"

\* C10: resume_partitions is called by on_recovery_completed only, once per
\* run that gets there, with exactly the assignment minus the partitions of
\* registered changelog topics (the empty set included).
C10_ResumeOnlyLive ==
  /\ \A p \in Procs \ {"on_recovery_completed"} : Ops(calls[p], "resume_partitions") = {}
  /\ LET L == calls["on_recovery_completed"]
     IN /\ \A i \in Ops(L, "resume_partitions") :
             /\ L[i].arg = L[i].assignment
                             \ {tp \in TPs : tp.topic \in RegisteredTopics(L[i].tables)}
             /\ \A tp \in L[i].arg : tp.topic \notin RegisteredTopics(Values(data))
        /\ Cardinality(Ops(L, "resume_partitions"))
             = IF pc["on_recovery_completed"] \in {"A129", "done"} THEN 1 ELSE 0

\* Only a changelog partition is assigned: resume_partitions was called with
\* the empty set.
C10_Witness ==
  \E i \in Ops(calls["on_recovery_completed"], "resume_partitions") :
    /\ calls["on_recovery_completed"][i].arg = {}
    /\ calls["on_recovery_completed"][i].assignment = {[topic |-> "x", partition |-> 0]}

\* C1: on_recovery_completed resumes partitions and starts the fetcher, and
\* clears app.rebalancing, only when every on_rebalance invoked so far has
\* been followed by a full run of the tables' recovered callbacks.
C1_NoResumeWhileRestorePending ==
  [][((pc["on_recovery_completed"] = "A121" /\ pc'["on_recovery_completed"] = "A129")
       \/ (pc["on_recovery_completed"] = "A129" /\ pc'["on_recovery_completed"] = "done"))
      => ~ restore_pending']_vars

\* C11: both latches are monotonic.  _recovery_started is false until the
\* first on_rebalance is invoked and true from then on; recovery_completed is
\* false until the first on_recovery_completed reaches its set step and true
\* from then on; no later on_rebalance, on_start, on_stop or
\* on_recovery_completed clears either of them.
C11_LatchesMonotonic ==
  /\ [](_recovery_started <=> nRebalances > 0)
  /\ [](recovery_completed
          <=> \/ nCompletions > 1
              \/ nCompletions = 1 /\ pc["on_recovery_completed"] \in {"A129", "done"})
  /\ [][/\ _recovery_started => _recovery_started'
        /\ recovery_completed => recovery_completed']_vars

\* Both latches are set, and since then a second rebalance, a second
\* completion, on_start and on_stop have all run to their end.
C11_Witness ==
  /\ _recovery_started
  /\ recovery_completed
  /\ nRebalances = MaxRebalances
  /\ nCompletions = MaxCompletions
  /\ \A p \in Procs : pc[p] = "done"

\* A step of the on_stop coroutine.
OnStopStep == pc'["on_stop"] # pc["on_stop"] \/ calls'["on_stop"] # calls["on_stop"]

\* C12: on_stop stops the fetcher first, then the recovery coordinator if and
\* only if it was constructed earlier (on_stop never constructs it), then
\* every registered table; no table is stopped before the fetcher stop has
\* returned.
C12_StopOrder ==
  /\ [](pc["on_stop"] # "idle" => Ops(calls["on_stop"], "fetcher.stop") = {1})
  /\ [](Ops(calls["on_stop"], "recovery.stop") \subseteq {2})
  /\ [](\A i \in Ops(calls["on_stop"], "table.stop") :
          /\ pc["on_stop"] \notin {"idle", "A94"}
          /\ \A j \in Ops(calls["on_stop"], "fetcher.stop")
                      \cup Ops(calls["on_stop"], "recovery.stop") : j < i)
  /\ [][OnStopStep => /\ _recovery' = _recovery
                      /\ recoveries_made' = recoveries_made]_vars
  /\ [][(pc["on_stop"] = "A94" /\ OnStopStep)
          => (Ops(calls'["on_stop"], "recovery.stop") # {} <=> _recovery # NoInstance)]_vars
  /\ [][(OnStopStep /\ pc'["on_stop"] = "done")
          => /\ {calls'["on_stop"][i].table : i \in Ops(calls'["on_stop"], "table.stop")}
                  = Values(data)
             /\ Cardinality(Ops(calls'["on_stop"], "table.stop")) = Len(data)]_vars

\* on_stop has returned after stopping the fetcher, a coordinator that a
\* rebalance had constructed, and two tables.
C12_Witness ==
  /\ pc["on_stop"] = "done"
  /\ Ops(calls["on_stop"], "recovery.stop") = {2}
  /\ Cardinality(Ops(calls["on_stop"], "table.stop")) = 2
  /\ nRebalances > 0

\* C13: on_start first sleeps, then wires the channels, and calls
\* recovery.start() only after the wiring has bound a channel to and started
\* every table registered at that moment and has issued the pause call.
C13_StartAfterWiring ==
  LET L == calls["on_start"]
  IN /\ pc["on_start"] # "idle" => Ops(L, "sleep") = {1}
     /\ Ops(L, "recovery.start") # {} <=> pc["on_start"] \in {"A78", "done"}
     /\ coord.started => pc["on_start"] \in {"A78", "done"}
     /\ \A s \in Ops(L, "recovery.start") :
          /\ s = Len(L)
          /\ s > 2
          /\ L[s - 1].op = "pause_partitions"
          /\ \A t \in L[s - 1].tables :
               /\ t \in DOMAIN _channels
               /\ table_state[t] # "new"
               /\ \E j \in Ops(L, "maybe_start") : L[j].table = t /\ j < s - 1

\* on_start is suspended in recovery.start() after a wiring run that bound
\* and started two tables.
C13_Witness ==
  /\ pc["on_start"] = "A78"
  /\ Cardinality(DOMAIN _channels) = 2
  /\ Cardinality(Ops(calls["on_start"], "maybe_start")) = 2

\* C14: the changelog queue and the recovery coordinator are lazy singletons:
\* over any sequence of on_start, on_rebalance, on_recovery_completed and
\* on_stop each is constructed at most once, and once constructed the same
\* instance is returned by every later access.
C14_LazySingletons ==
  /\ [](queues_made <= 1 /\ recoveries_made <= 1)
  /\ [](_changelog_queue = queues_made /\ _recovery = recoveries_made)
  /\ [](\A t \in DOMAIN _channels : _channels[t].queue = _changelog_queue)
  /\ [][/\ _changelog_queue # NoInstance => _changelog_queue' = _changelog_queue
        /\ _recovery # NoInstance => _recovery' = _recovery]_vars

\* Both singletons exist after the queue was asked for by two channel
\* derivations and the coordinator by on_start and by two rebalances.
C14_Witness ==
  /\ queues_made = 1
  /\ recoveries_made = 1
  /\ Len(app_topics) = 2
  /\ nRebalances = MaxRebalances
  /\ pc["on_start"] = "done"
  /\ pc["on_rebalance"] = "done"
  /\ pc["on_stop"] = "done"

\* C15: over any interleaving of wiring runs (on_start's wiring suspended at
\* a table start while on_rebalance runs its own, and repeated rebalances) a
\* table's channel is derived and registered with the topic registry exactly
\* once and never replaced, and all channels are bound to the one shared
\* changelog queue.
C15_OneChannelPerTable ==
  /\ [](Len(app_topics) = Cardinality(DOMAIN _channels))
  /\ [](\A t \in DOMAIN _channels :
          /\ Cardinality({i \in 1..Len(app_topics) : app_topics[i] = _channels[t]}) = 1
          /\ _channels[t].topic = TopicName(t)
          /\ _channels[t].queue = _changelog_queue
          /\ _changelog_queue # NoInstance)
  /\ [](\A t, u \in DOMAIN _channels : t # u => _channels[t] # _channels[u])
  /\ [][\A t \in DOMAIN _channels :
          t \in DOMAIN _channels' /\ _channels'[t] = _channels[t]]_vars

\* on_start's wiring and a second rebalance's wiring are both suspended at a
\* table start, with two tables bound.
C15_Witness ==
  /\ pc["on_start"] = "A87"
  /\ pc["on_rebalance"] = "A87"
  /\ nRebalances = MaxRebalances
  /\ Cardinality(DOMAIN _channels) = 2

\* C16: every on_rebalance that completes its wiring leaves every registered
\* table with a bound channel and started by this invocation, and has paused
\* exactly the changelog partitions of the current assignment, whatever ran
\* before it (on_start complete, suspended or never called, on_stop, earlier
\* rebalances and completions).
C16_RebalanceWiresAndPauses ==
  LET L == calls["on_rebalance"]
  IN pc["on_rebalance"] \in {"A110", "done"}
       => /\ \A t \in Values(data) :
               /\ t \in DOMAIN _channels
               /\ table_state[t] # "new"
               /\ \E j \in Ops(L, "maybe_start") :
                    L[j].table = t /\ \A i \in Ops(L, "pause_partitions") : j < i
          /\ Cardinality(Ops(L, "pause_partitions")) = 1
          /\ \A i \in Ops(L, "pause_partitions") :
               L[i].arg = {tp \in assignment : tp.topic \in RegisteredTopics(Values(data))}

\* A second rebalance has completed with a changelog partition paused while
\* on_start is still in its sleep and on_stop has already run.
C16_Witness ==
  /\ pc["on_rebalance"] = "done"
  /\ nRebalances = MaxRebalances
  /\ pc["on_start"] = "A76"
  /\ pc["on_stop"] = "done"
  /\ Len(data) = 2
  /\ \E i \in Ops(calls["on_rebalance"], "pause_partitions") :
       calls["on_rebalance"][i].arg # {}

\* C17: no collaborator error is swallowed; in particular, when a table's
\* recovered-callback fails in on_recovery_completed, the seek, the setting of
\* recovery_completed, the resume and the fetcher start are not performed:
\* while a callback task of the current run has failed, the run's log holds
\* none of those calls.
C17_CallbackFailureStopsCompletion ==
  (\E t \in Tables : cb[t] = "failed")
    => \A op \in {"perform_seek", "recovery_completed.set", "resume_partitions",
                  "fetcher.maybe_start"} :
         Ops(calls["on_recovery_completed"], op) = {}

\* The ops of a call log, in order.
OpSeq(L) == [i \in 1..Len(L) |-> L[i].op]

\* The part of a call log after its last call_recover_callbacks entry.
AfterBarrier(L) ==
  LET k == Cardinality(Ops(L, "call_recover_callbacks"))
  IN OpSeq(SubSeq(L, k + 1, Len(L)))

\* C18: after the callback barrier on_recovery_completed performs, in this
\* order, perform_seek, the setting of recovery_completed, resume_partitions,
\* the fetcher start and the clearing of app.rebalancing; the latch is not set
\* before the seek has returned; at the return the latch is set, the fetcher
\* is started and app.rebalancing is false.
C18_CompletionOrder ==
  /\ [](LET steps == AfterBarrier(calls["on_recovery_completed"])
        IN /\ pc["on_recovery_completed"] = "A119" => steps = << >>
           /\ pc["on_recovery_completed"] = "A121" => steps = <<"perform_seek">>
           /\ pc["on_recovery_completed"] = "A129"
                => steps = <<"perform_seek", "recovery_completed.set",
                             "resume_partitions", "fetcher.maybe_start">>
           /\ pc["on_recovery_completed"] = "done"
                => steps = <<"perform_seek", "recovery_completed.set",
                             "resume_partitions", "fetcher.maybe_start",
                             "rebalancing=False">>)
  /\ []((nCompletions <= 1 /\ pc["on_recovery_completed"] \in {"idle", "A119", "A121"})
          => ~ recovery_completed)
  /\ [][(pc["on_recovery_completed"] # "done" /\ pc'["on_recovery_completed"] = "done")
          => /\ recovery_completed'
             /\ fetcher' = "started"
             /\ ~ rebalancing']_vars

\* A completion with one callback has returned: latch set, fetcher started,
\* app.rebalancing false.
C18_Witness ==
  /\ pc["on_recovery_completed"] = "done"
  /\ Cardinality(Ops(calls["on_recovery_completed"], "call_recover_callbacks")) >= 1
  /\ recovery_completed
  /\ fetcher = "started"
  /\ ~ rebalancing

\* C19: no wake-up is missed.  Once on_recovery_completed is invoked (the
\* callbacks and perform_seek terminate) recovery_completed is eventually
\* set, every task that waits on it, before or after the set, is eventually
\* released, and a second on_recovery_completed leaves the latch set.
C19_NoMissedWakeup ==
  /\ (nCompletions > 0) ~> recovery_completed
  /\ \A w \in Waiters :
       (waiter[w] # "idle" /\ nCompletions > 0) ~> (waiter[w] = "released")
  /\ [](\A w \in Waiters : waiter[w] = "released" => recovery_completed)
  /\ [][recovery_completed => recovery_completed']_vars

\* The latch has been set while one task was suspended in wait() and is about
\* to be resumed; the other task is released; a second completion has run.
C19_Witness ==
  /\ waiter["w1"] = "waiting"
  /\ waiter["w2"] = "released"
  /\ recovery_completed
  /\ nCompletions = MaxCompletions
  /\ pc["on_recovery_completed"] = "done"

\* C20: the recovery coordinator is started before any rebalance reaches it:
\* in every interleaving of on_start with on_rebalance, the coordinator's
\* start() has been called when the manager forwards the first on_rebalance
\* triple to it.
C20_StartBeforeForward ==
  coord.rebalances > 0 => coord.started

====
